---- MODULE Spec2Model ----
(***************************************************************************)
(* Model of src/studio_test_layout/main.js: the StudioViewer class (camera *)
(* fitting, model loading, view buttons, resize, render loop) and the      *)
(* optimize() script (texture / attribute stripping of a glTF document,    *)
(* followed by the external compression, conversion and file steps).       *)
(*                                                                         *)
(* JavaScript numbers are modelled as fixed-point integers: the real value *)
(* r is the integer r * Scale, and every product or quotient is truncated  *)
(* to that resolution.  Infinity is a sentinel larger than any coordinate. *)
(* JavaScript objects are functions whose DOMAIN is the set of own keys;   *)
(* `delete o.k` removes k from the domain, arrays are sequences.           *)
(***************************************************************************)
EXTENDS Integers, Sequences, FiniteSets

\* Resolution of the fixed-point model of a JavaScript number.
Scale == 1000

Infinity == 1000 * 1000 * 1000

\* Math.PI at the model's resolution.
MathPI == (3142 * Scale) \div 1000

\* Division truncated towards zero (symmetric in the sign of a).
Div(a, b) == IF a >= 0 THEN a \div b ELSE -((-a) \div b)

\* Fixed-point product and quotient of two fixed-point numbers.
Mul(a, b) == Div(a * b, Scale)
Quot(a, b) == Div(a * Scale, b)

Max2(a, b) == IF a >= b THEN a ELSE b
Min2(a, b) == IF a <= b THEN a ELSE b

\* Math.max(a, b, c)
MathMax3(a, b, c) == Max2(a, Max2(b, c))

RECURSIVE SqrtIter(_, _)
SqrtIter(n, x) ==
    LET y == (x + n \div x) \div 2
    IN  IF y >= x THEN x ELSE SqrtIter(n, y)

\* Math.sqrt on a non-negative integer, truncated.
MathSqrt(n) == IF n = 0 THEN 0 ELSE SqrtIter(n, n)

\* Number of terms kept of the arctangent series.
AtanTerms == 8

RECURSIVE AtanSeries(_, _, _)
AtanSeries(x, pow, k) ==
    IF k >= AtanTerms \/ pow = 0 THEN 0
    ELSE (IF k % 2 = 0 THEN 1 ELSE -1) * (pow \div (2 * k + 1))
         + AtanSeries(x, Mul(Mul(pow, x), x), k + 1)

\* Math.atan(x) for a fixed-point 0 <= x < 1: x - x^3/3 + x^5/5 - ...
MathAtan(x) == AtanSeries(x, x, 0)

----------------------------------------------------------------------------
(* THREE.Vector3 *)

Vec(x, y, z) == <<x * Scale, y * Scale, z * Scale>>

Origin == <<0, 0, 0>>

VSub(a, b) == <<a[1] - b[1], a[2] - b[2], a[3] - b[3]>>

VAdd(a, b) == <<a[1] + b[1], a[2] + b[2], a[3] + b[3]>>

\* Vector3.multiplyScalar
MultiplyScalar(v, s) == <<Mul(v[1], s), Mul(v[2], s), Mul(v[3], s)>>

\* Vector3.length
Length(v) == MathSqrt(v[1] * v[1] + v[2] * v[2] + v[3] * v[3])

\* A normalize that answers the fixed isometric direction for the zero vector.
NormalizeOrDefault(v) ==
    LET l == Length(v)
        w == IF l = 0 THEN <<Scale, Scale, Scale>> ELSE v
        d == Length(w)
    IN  <<Quot(w[1], d), Quot(w[2], d), Quot(w[3], d)>>

\* Vector3.normalize: divideScalar(this.length() || 1)
Normalize(v) ==
    LET l == Length(v)
        d == IF l = 0 THEN Scale ELSE l
    IN  <<Quot(v[1], d), Quot(v[2], d), Quot(v[3], d)>>

----------------------------------------------------------------------------
(* THREE.Box3 *)

\* new THREE.Box3(): min = +Infinity, max = -Infinity
EmptyBox ==
    [min |-> <<Infinity, Infinity, Infinity>>,
     max |-> <<-Infinity, -Infinity, -Infinity>>]

IsEmpty(b) == \E i \in 1..3 : b.max[i] < b.min[i]

\* Box3.expandByObject: union with the object's world bounding box (an
\* object without geometry contributes nothing).
ExpandByObject(b, object) ==
    [min |-> <<Min2(b.min[1], object.min[1]), Min2(b.min[2], object.min[2]),
               Min2(b.min[3], object.min[3])>>,
     max |-> <<Max2(b.max[1], object.max[1]), Max2(b.max[2], object.max[2]),
               Max2(b.max[3], object.max[3])>>]

RECURSIVE ExpandAll(_, _)
ExpandAll(b, selection) ==
    IF selection = <<>> THEN b
    ELSE ExpandAll(ExpandByObject(b, Head(selection)), Tail(selection))

\* Box3.getSize: (0,0,0) for an empty box
GetSize(b) == IF IsEmpty(b) THEN Origin ELSE VSub(b.max, b.min)

\* Box3.getCenter: (0,0,0) for an empty box
GetCenter(b) ==
    IF IsEmpty(b) THEN Origin
    ELSE LET s == VAdd(b.min, b.max)
         IN  <<Div(s[1], 2), Div(s[2], 2), Div(s[3], 2)>>

\* Box3.setFromObject(model) after model.position.sub(center)
Translate(b, d) ==
    IF IsEmpty(b) THEN b
    ELSE [min |-> VSub(b.min, d), max |-> VSub(b.max, d)]

----------------------------------------------------------------------------
(* State *)

VARIABLES
    camera,     \* THREE.PerspectiveCamera: fov, aspect, near, far, position
    controls,   \* OrbitControls: target, maxDistance
    container,  \* <<clientWidth, clientHeight>> of #canvas-container
    model,      \* this.model: <<>> while unset, <<box>> once set
    load,       \* GLTFLoader.load: "pending", "loaded" or "error"
    frames,     \* frames rendered by animate()
    fit,        \* record of the last fitCameraToSelection invocation
    file,       \* the input glTF document on disk: <<>> unreadable, <<doc>>
    gltf,       \* the in-memory document of optimize(): <<>> or <<doc>>
    once,       \* the document after the first stripping pass
    passes,     \* stripping passes applied to gltf
    pc,         \* position of optimize()
    output,     \* optimized-model.glb: "none", "partial" or "written"
    failed,     \* the step of optimize() that threw, "none" if none did
    logged      \* whether the catch block logged an error

viewerVars == <<camera, controls, container, model, load, frames, fit>>
optimizeVars == <<file, gltf, once, passes, pc, output, failed, logged>>
vars == <<camera, controls, container, model, load, frames, fit,
          file, gltf, once, passes, pc, output, failed, logged>>

----------------------------------------------------------------------------
(* StudioViewer *)

\* fitOffset = 1.2, the default parameter of fitCameraToSelection
DefaultFitOffset == (12 * Scale) \div 10

\* camera.fov as constructed
CameraFov == 45

\* camera.near = distance / 100
CameraNear(distance) == Div(distance, 100)

\* A far plane computed like the near plane.
CameraFarDivided(distance) == Div(distance, 100)

\* camera.far = distance * 100
CameraFar(distance) == distance * 100

\* controls.maxDistance = distance * 10
MaxOrbitDistance(distance) == distance * 10

\* maxSize / (2 * Math.atan(Math.PI * camera.fov / 360))
FitHeightDistance(maxSize, fov) ==
    Quot(maxSize, 2 * MathAtan(Div(MathPI * fov, 360)))

\* fitHeightDistance / camera.aspect
FitWidthDistance(fitHeightDistance, aspect) == Quot(fitHeightDistance, aspect)

\* fitOffset * Math.max(fitHeightDistance, fitWidthDistance)
FitDistance(maxSize, fov, aspect, fitOffset) ==
    LET fitHeightDistance == FitHeightDistance(maxSize, fov)
        fitWidthDistance == FitWidthDistance(fitHeightDistance, aspect)
    IN  Mul(fitOffset, Max2(fitHeightDistance, fitWidthDistance))

\* controls.target.clone().sub(camera.position).normalize().multiplyScalar(distance)
FitDirection(cam, ctl, distance) ==
    MultiplyScalar(Normalize(VSub(ctl.target, cam.position)), distance)

\* OrbitControls.update() with no pending pointer input: the camera keeps
\* its offset from the target, clamped to controls.maxDistance
\* (minDistance is 0).  The camera's orientation is not modelled.
ControlsUpdate(cam, ctl) ==
    LET offset == VSub(cam.position, ctl.target)
        radius == Length(offset)
    IN  IF ctl.maxDistance = Infinity \/ radius <= ctl.maxDistance THEN cam
        ELSE [cam EXCEPT !.position =
                 VAdd(ctl.target,
                      <<Div(offset[1] * ctl.maxDistance, radius),
                        Div(offset[2] * ctl.maxDistance, radius),
                        Div(offset[3] * ctl.maxDistance, radius)>>)]

\* Lines 127-149 of fitCameraToSelection, from the box of the selection on:
\* the camera and controls it leaves, with the distance it computed.  No
\* statement of it throws.
FitToBox(cam, ctl, box, fitOffset) ==
    LET size == GetSize(box)
        center == GetCenter(box)
        maxSize == MathMax3(size[1], size[2], size[3])
        distance == FitDistance(maxSize, cam.fov, cam.aspect, fitOffset)
        direction == FitDirection(cam, ctl, distance)
        ctl2 == [ctl EXCEPT !.maxDistance = MaxOrbitDistance(distance),
                            !.target = center]
        cam2 == [cam EXCEPT !.near = CameraNear(distance),
                            !.far = CameraFar(distance),
                            !.position = VSub(ctl2.target, direction)]
    IN  [camera |-> ControlsUpdate(cam2, ctl2), controls |-> ctl2,
         box |-> box, maxSize |-> maxSize, distance |-> distance,
         error |-> "none"]

\* A fitCameraToSelection that refuses an empty selection.
FitCameraToSelectionChecked(cam, ctl, selection, fitOffset) ==
    IF selection = <<>>
    THEN [camera |-> cam, controls |-> ctl, box |-> EmptyBox, maxSize |-> 0,
          distance |-> 0, error |-> "EmptyInputError"]
    ELSE FitToBox(cam, ctl, ExpandAll(EmptyBox, selection), fitOffset)

\* fitCameraToSelection(camera, controls, selection, fitOffset)
FitCameraToSelection(cam, ctl, selection, fitOffset) ==
    FitToBox(cam, ctl, ExpandAll(EmptyBox, selection), fitOffset)

\* What the model remembers of an invocation of fitCameraToSelection.
FitRecord(calls, cam, ctl, selection, r) ==
    [calls |-> calls, n |-> Len(selection), box |-> r.box,
     maxSize |-> r.maxSize, distance |-> r.distance, error |-> r.error,
     before |-> [camera |-> cam, controls |-> ctl]]

NoFit(cam, ctl) ==
    [calls |-> 0, n |-> 0, box |-> EmptyBox, maxSize |-> 0, distance |-> 0,
     error |-> "none",
     before |-> [camera |-> cam, controls |-> ctl]]

\* this.container.clientWidth / this.container.clientHeight
Aspect(size) == Quot(size[1] * Scale, size[2] * Scale)

\* new THREE.PerspectiveCamera(45, aspect, 0.1, 1000), position (5, 5, 5)
NewCamera(size) ==
    [fov |-> CameraFov, aspect |-> Aspect(size), near |-> Scale \div 10,
     far |-> 1000 * Scale, position |-> Vec(5, 5, 5)]

\* new OrbitControls(camera, domElement): target (0,0,0), maxDistance Infinity
NewControls == [target |-> Origin, maxDistance |-> Infinity]

\* new THREE.BoxGeometry(2, 3, 1) in a mesh at the origin
PlaceholderBox ==
    [min |-> <<-Scale, -((3 * Scale) \div 2), -(Scale \div 2)>>,
     max |-> <<Scale, (3 * Scale) \div 2, Scale \div 2>>]

\* The camera positions of setCameraView: dist = 5, dist * 1.5 = 7.5
ViewPosition(view) ==
    LET dist == 5 * Scale
        far15 == (dist * 15) \div 10
    IN  CASE view = "isometric" -> <<dist, dist, dist>>
          [] view = "front" -> <<0, 0, far15>>
          [] view = "top" -> <<0, far15, 0>>
          [] view = "side" -> <<far15, 0, 0>>

Views == {"isometric", "front", "top", "side"}

(* The environment of the viewer *)

\* Sizes the container takes (width, height), all positive.
ContainerSizes == {<<800, 600>>, <<600, 800>>, <<500, 500>>}

Box(x0, y0, z0, x1, y1, z1) ==
    [min |-> Vec(x0, y0, z0), max |-> Vec(x1, y1, z1)]

\* World bounding boxes of objects: a cube of size 2 about the origin,
\* an off-centre slab, a single point, a unit cube in a corner, and an
\* object without geometry.
Objects ==
    {Box(-1, -1, -1, 1, 1, 1), Box(0, 0, 0, 4, 1, 2), Box(2, 0, 0, 2, 0, 0),
     Box(1, 1, 1, 2, 2, 2), EmptyBox}

\* Frames the render loop is followed for.
MaxFrames == 3

\* Longest selection handed to fitCameraToSelection.
MaxSelection == 2

Selections == UNION {[1..n -> Objects] : n \in 0..MaxSelection}

OptimizeIdle ==
    /\ file = <<>>
    /\ gltf = <<>>
    /\ once = <<>>
    /\ passes = 0
    /\ pc = "idle"
    /\ output = "none"
    /\ failed = "none"
    /\ logged = FALSE

\* new StudioViewer(): the state the constructor leaves, the first frame
\* rendered and the model load pending.
Init ==
    /\ container \in ContainerSizes
    /\ camera = NewCamera(container)
    /\ controls = NewControls
    /\ model = <<>>
    /\ load = "pending"
    /\ frames = 1
    /\ fit = NoFit(camera, controls)
    /\ OptimizeIdle

\* An onLoad callback that keeps the model and does not fit the camera.
LoadSuccessNoFit(b) ==
    /\ load = "pending"
    /\ model' = <<Translate(b, GetCenter(b))>>
    /\ load' = "loaded"
    /\ UNCHANGED <<camera, controls, fit, container, frames>>
    /\ UNCHANGED optimizeVars

\* The onLoad callback of loader.load: centre the model, keep it as
\* this.model, fit the camera to it.
LoadSuccess(b) ==
    /\ load = "pending"
    /\ LET centred == Translate(b, GetCenter(b))
           r == FitCameraToSelection(camera, controls, <<centred>>,
                                     DefaultFitOffset)
       IN  /\ model' = <<centred>>
           /\ camera' = r.camera
           /\ controls' = r.controls
           /\ fit' = FitRecord(fit.calls + 1, camera, controls, <<centred>>, r)
    /\ load' = "loaded"
    /\ UNCHANGED <<container, frames>>
    /\ UNCHANGED optimizeVars

\* createPlaceholder(): the cube becomes this.model.
CreatePlaceholder ==
    /\ model' = <<PlaceholderBox>>
    /\ UNCHANGED <<camera, controls, fit>>

\* The onError callback of loader.load.
LoadError ==
    /\ load = "pending"
    /\ load' = "error"
    /\ CreatePlaceholder
    /\ UNCHANGED <<container, frames>>
    /\ UNCHANGED optimizeVars

\* setCameraView(view), from the click handler of a .cam-btn button.
SetCameraView(view) ==
    /\ camera' = IF model = <<>> THEN camera
                 ELSE ControlsUpdate([camera EXCEPT !.position =
                                         ViewPosition(view)], controls)
    /\ UNCHANGED <<controls, container, model, load, frames, fit>>
    /\ UNCHANGED optimizeVars

\* onWindowResize()
OnWindowResize(size) ==
    /\ container' = size
    /\ camera' = [camera EXCEPT !.aspect = Aspect(size)]
    /\ UNCHANGED <<controls, model, load, frames, fit>>
    /\ UNCHANGED optimizeVars

\* animate(): one frame of the render loop.
Animate ==
    /\ frames < MaxFrames
    /\ frames' = frames + 1
    /\ camera' = ControlsUpdate(camera, controls)
    /\ UNCHANGED <<controls, container, model, load, fit>>
    /\ UNCHANGED optimizeVars

Next ==
    \/ \E b \in Objects : LoadSuccess(b)
    \/ LoadError
    \/ \E view \in Views : SetCameraView(view)
    \/ \E size \in ContainerSizes : OnWindowResize(size)
    \/ Animate

Spec == Init /\ [][Next]_vars

----------------------------------------------------------------------------
(* fitCameraToSelection as a function of its arguments *)

CameraPositions == {Vec(5, 5, 5), Vec(0, 0, 0), Vec(1, 0, 0), Vec(-3, 2, 0)}

Targets == {Vec(0, 0, 0), Vec(1, 0, 0)}

InitFit ==
    /\ container \in ContainerSizes
    /\ \E position \in CameraPositions :
          camera = [NewCamera(container) EXCEPT !.position = position]
    /\ \E target \in Targets : controls = [NewControls EXCEPT !.target = target]
    /\ model = <<>>
    /\ load = "pending"
    /\ frames = 1
    /\ fit = NoFit(camera, controls)
    /\ OptimizeIdle

FitCall(selection) ==
    /\ fit.calls = 0
    /\ LET r == FitCameraToSelection(camera, controls, selection,
                                     DefaultFitOffset)
       IN  /\ camera' = r.camera
           /\ controls' = r.controls
           /\ fit' = FitRecord(1, camera, controls, selection, r)
    /\ UNCHANGED <<container, model, load, frames>>
    /\ UNCHANGED optimizeVars

NextFit == \E selection \in Selections : FitCall(selection)

SpecFit == InitFit /\ [][NextFit]_vars

----------------------------------------------------------------------------
(* optimize(): the glTF document and the stripping step *)

\* {} : an object without own keys
EmptyObject == [k \in {} |-> 0]

\* o.k = v
Put(o, k, v) == [x \in DOMAIN o \cup {k} |-> IF x = k THEN v ELSE o[x]]

\* delete o.k : a no-op when o has no key k
Delete(o, k) == [x \in DOMAIN o \ {k} |-> o[x]]

Has(o, k) == k \in DOMAIN o

\* The top-level arrays line 229-231 delete.
TextureArrays == {"images", "textures", "samplers"}

\* The texture references line 236-237 delete from pbrMetallicRoughness.
PbrTextures == {"baseColorTexture", "metallicRoughnessTexture"}

\* The texture references line 239-241 delete from a material.
MaterialTextures == {"normalTexture", "occlusionTexture", "emissiveTexture"}

\* The attributes line 252-256 delete from a primitive.
StrippedAttributes ==
    {"NORMAL", "TEXCOORD_0", "TEXCOORD_1", "TANGENT", "COLOR_0"}

\* A material step that also drops a pbrMetallicRoughness found empty.
StripMaterialDropEmpty(mat) ==
    LET m == IF ~Has(mat, "pbrMetallicRoughness") THEN mat
             ELSE IF DOMAIN mat.pbrMetallicRoughness = {}
             THEN Delete(mat, "pbrMetallicRoughness")
             ELSE [mat EXCEPT !["pbrMetallicRoughness"] =
                      Delete(Delete(@, "baseColorTexture"),
                             "metallicRoughnessTexture")]
    IN  Delete(Delete(Delete(m, "normalTexture"), "occlusionTexture"),
               "emissiveTexture")

\* The body of gltf.materials.forEach (lines 235-241)
StripMaterial(mat) ==
    LET m == IF Has(mat, "pbrMetallicRoughness")
             THEN [mat EXCEPT !["pbrMetallicRoughness"] =
                      Delete(Delete(@, "baseColorTexture"),
                             "metallicRoughnessTexture")]
             ELSE mat
    IN  Delete(Delete(Delete(m, "normalTexture"), "occlusionTexture"),
               "emissiveTexture")

\* A primitive step that keeps the vertex colours.
StripPrimitiveKeepColor(primitive) ==
    IF Has(primitive, "attributes")
    THEN [primitive EXCEPT !["attributes"] =
             Delete(Delete(Delete(Delete(@, "NORMAL"), "TEXCOORD_0"),
                           "TEXCOORD_1"), "TANGENT")]
    ELSE primitive

\* A primitive step that empties the attributes.
StripPrimitiveAll(primitive) ==
    IF Has(primitive, "attributes")
    THEN [primitive EXCEPT !["attributes"] = [k \in {} |-> 0]]
    ELSE primitive

\* The body of mesh.primitives.forEach (lines 251-257)
StripPrimitive(primitive) ==
    IF Has(primitive, "attributes")
    THEN [primitive EXCEPT !["attributes"] =
             Delete(Delete(Delete(Delete(Delete(@, "NORMAL"), "TEXCOORD_0"),
                                  "TEXCOORD_1"), "TANGENT"), "COLOR_0")]
    ELSE primitive

\* The body of gltf.meshes.forEach (lines 249-259)
StripMesh(mesh) ==
    IF Has(mesh, "primitives")
    THEN [mesh EXCEPT !["primitives"] =
             [i \in 1..Len(@) |-> StripPrimitive(@[i])]]
    ELSE mesh

\* A texture step that deletes the materials array too.
StripTextureArraysAndMaterials(doc) ==
    Delete(Delete(Delete(Delete(doc, "images"), "textures"), "samplers"),
           "materials")

\* delete gltf.images; delete gltf.textures; delete gltf.samplers
StripTextureArrays(doc) ==
    Delete(Delete(Delete(doc, "images"), "textures"), "samplers")

\* if (gltf.materials) gltf.materials.forEach(...)
StripMaterials(doc) ==
    IF Has(doc, "materials")
    THEN [doc EXCEPT !["materials"] =
             [i \in 1..Len(@) |-> StripMaterial(@[i])]]
    ELSE doc

\* if (gltf.meshes) gltf.meshes.forEach(...)
StripMeshes(doc) ==
    IF Has(doc, "meshes")
    THEN [doc EXCEPT !["meshes"] = [i \in 1..Len(@) |-> StripMesh(@[i])]]
    ELSE doc

\* Lines 229-261 of optimize(): the stripping step.
Strip(doc) == StripMeshes(StripMaterials(StripTextureArrays(doc)))

(* The input document: any glTF document of bounded size *)

\* Own keys and array elements a document may hold in all.
MaxNodes == 9

\* Keys of a material the environment may set (an index or a name).
MaterialKeys == MaterialTextures \cup {"name"}

\* Keys of pbrMetallicRoughness the environment may set.
PbrKeys == PbrTextures \cup {"baseColorFactor"}

\* Attribute semantics the environment may set on a primitive.
AttributeKeys == StrippedAttributes \cup {"POSITION"}

RECURSIVE SizeOfPrimitives(_)
SizeOfPrimitives(ps) ==
    IF ps = <<>> THEN 0
    ELSE 1 + Cardinality(DOMAIN Head(ps))
         + (IF Has(Head(ps), "attributes")
            THEN Cardinality(DOMAIN Head(ps).attributes) ELSE 0)
         + SizeOfPrimitives(Tail(ps))

RECURSIVE SizeOfMeshes(_)
SizeOfMeshes(ms) ==
    IF ms = <<>> THEN 0
    ELSE 1 + Cardinality(DOMAIN Head(ms))
         + (IF Has(Head(ms), "primitives")
            THEN SizeOfPrimitives(Head(ms).primitives) ELSE 0)
         + SizeOfMeshes(Tail(ms))

RECURSIVE SizeOfMaterials(_)
SizeOfMaterials(ms) ==
    IF ms = <<>> THEN 0
    ELSE 1 + Cardinality(DOMAIN Head(ms))
         + (IF Has(Head(ms), "pbrMetallicRoughness")
            THEN Cardinality(DOMAIN Head(ms).pbrMetallicRoughness) ELSE 0)
         + SizeOfMaterials(Tail(ms))

\* Own keys and array elements of a document, its "asset" key aside.
SizeOfDocument(doc) ==
    Cardinality(DOMAIN doc \ {"asset"})
    + (IF Has(doc, "materials") THEN SizeOfMaterials(doc.materials) ELSE 0)
    + (IF Has(doc, "meshes") THEN SizeOfMeshes(doc.meshes) ELSE 0)

\* The smallest document: { "asset": ... }
MinimalDocument == [k \in {"asset"} |-> 2]

\* The value the environment gives key k: an index into an array of the
\* document, a small number or an empty container.
ValueOf(k) ==
    CASE k \in {"materials", "meshes", "primitives"} -> <<>>
      [] k \in {"pbrMetallicRoughness", "attributes"} -> EmptyObject
      [] k = "POSITION" -> 0
      [] k = "indices" -> 1
      [] OTHER -> 2

\* seq with its last element replaced by f of it
Last(seq) == seq[Len(seq)]
SetLast(seq, v) == [seq EXCEPT ![Len(seq)] = v]

ViewerIdle ==
    /\ container = <<500, 500>>
    /\ camera = NewCamera(container)
    /\ controls = NewControls
    /\ model = <<>>
    /\ load = "pending"
    /\ frames = 1
    /\ fit = NoFit(camera, controls)

Building == pc = "idle" /\ passes = 0 /\ file # <<>>

CanGrow == Building /\ SizeOfDocument(file[1]) < MaxNodes

Written(doc) ==
    /\ file' = <<doc>>
    /\ UNCHANGED <<gltf, once, passes, pc, output, failed, logged>>
    /\ UNCHANGED viewerVars

\* The environment sets a top-level key of the input document.
SetTopKey(k) ==
    /\ CanGrow
    /\ ~Has(file[1], k)
    /\ Written(Put(file[1], k, ValueOf(k)))

\* The environment appends a material {}.
AddMaterial ==
    /\ CanGrow
    /\ Has(file[1], "materials")
    /\ Written([file[1] EXCEPT !["materials"] = Append(@, EmptyObject)])

\* The environment sets a key of the last material.
SetMaterialKey(k) ==
    /\ CanGrow
    /\ Has(file[1], "materials") /\ file[1].materials # <<>>
    /\ ~Has(Last(file[1].materials), k)
    /\ Written([file[1] EXCEPT !["materials"] =
                    SetLast(@, Put(Last(@), k, ValueOf(k)))])

\* The environment sets a key of the last material's pbrMetallicRoughness.
SetPbrKey(k) ==
    /\ CanGrow
    /\ Has(file[1], "materials") /\ file[1].materials # <<>>
    /\ Has(Last(file[1].materials), "pbrMetallicRoughness")
    /\ ~Has(Last(file[1].materials).pbrMetallicRoughness, k)
    /\ Written([file[1] EXCEPT !["materials"] =
                    SetLast(@, [Last(@) EXCEPT !["pbrMetallicRoughness"] =
                                   Put(@, k, ValueOf(k))])])

\* The environment appends a mesh {}.
AddMesh ==
    /\ CanGrow
    /\ Has(file[1], "meshes")
    /\ Written([file[1] EXCEPT !["meshes"] = Append(@, EmptyObject)])

\* The environment gives the last mesh a primitives array.
SetPrimitives ==
    /\ CanGrow
    /\ Has(file[1], "meshes") /\ file[1].meshes # <<>>
    /\ ~Has(Last(file[1].meshes), "primitives")
    /\ Written([file[1] EXCEPT !["meshes"] =
                    SetLast(@, Put(Last(@), "primitives", <<>>))])

LastMeshHasPrimitives ==
    /\ Has(file[1], "meshes") /\ file[1].meshes # <<>>
    /\ Has(Last(file[1].meshes), "primitives")

\* The environment appends a primitive {} to the last mesh.
AddPrimitive ==
    /\ CanGrow
    /\ LastMeshHasPrimitives
    /\ Written([file[1] EXCEPT !["meshes"] =
                    SetLast(@, [Last(@) EXCEPT !["primitives"] =
                                   Append(@, EmptyObject)])])

LastPrimitive == Last(Last(file[1].meshes).primitives)

WithLastPrimitive(p) ==
    [file[1] EXCEPT !["meshes"] =
        SetLast(@, [Last(@) EXCEPT !["primitives"] = SetLast(@, p)])]

\* The environment sets "indices" or "attributes" of the last primitive.
SetPrimitiveKey(k) ==
    /\ CanGrow
    /\ LastMeshHasPrimitives /\ Last(file[1].meshes).primitives # <<>>
    /\ ~Has(LastPrimitive, k)
    /\ Written(WithLastPrimitive(Put(LastPrimitive, k, ValueOf(k))))

\* The environment sets an attribute of the last primitive.
SetAttribute(k) ==
    /\ CanGrow
    /\ LastMeshHasPrimitives /\ Last(file[1].meshes).primitives # <<>>
    /\ Has(LastPrimitive, "attributes")
    /\ ~Has(LastPrimitive.attributes, k)
    /\ Written(WithLastPrimitive(
           [LastPrimitive EXCEPT !["attributes"] = Put(@, k, ValueOf(k))]))

WriteInput ==
    \/ \E k \in TextureArrays \cup {"materials", "meshes"} : SetTopKey(k)
    \/ AddMaterial
    \/ \E k \in MaterialKeys \cup {"pbrMetallicRoughness"} : SetMaterialKey(k)
    \/ \E k \in PbrKeys : SetPbrKey(k)
    \/ AddMesh
    \/ SetPrimitives
    \/ AddPrimitive
    \/ \E k \in {"indices", "attributes"} : SetPrimitiveKey(k)
    \/ \E k \in AttributeKeys : SetAttribute(k)

(* strip as a function of the document *)

InitStrip ==
    /\ ViewerIdle
    /\ file = <<MinimalDocument>>
    /\ gltf = <<>>
    /\ once = <<>>
    /\ passes = 0
    /\ pc = "idle"
    /\ output = "none"
    /\ failed = "none"
    /\ logged = FALSE

\* The document is parsed and stripped.
StripFirst ==
    /\ Building
    /\ gltf' = <<Strip(file[1])>>
    /\ once' = gltf'
    /\ passes' = 1
    /\ UNCHANGED <<file, pc, output, failed, logged>>
    /\ UNCHANGED viewerVars

\* The stripped document is stripped again.
StripAgain ==
    /\ passes = 1
    /\ gltf' = <<Strip(gltf[1])>>
    /\ passes' = 2
    /\ UNCHANGED <<file, once, pc, output, failed, logged>>
    /\ UNCHANGED viewerVars

NextStrip == WriteInput \/ StripFirst \/ StripAgain

SpecStrip == InitStrip /\ [][NextStrip]_vars

----------------------------------------------------------------------------
(* optimize(): one run of the script *)

\* Input documents of the runs followed: with and without textures,
\* materials, meshes, primitives and attributes.
SampleDocuments ==
    {MinimalDocument,
     [asset |-> 2, materials |-> <<>>, meshes |-> <<>>],
     [asset |-> 2, images |-> 2, textures |-> 2, samplers |-> 2,
      materials |-> <<[name |-> 2,
                       pbrMetallicRoughness |-> [baseColorTexture |-> 2]]>>],
     [asset |-> 2,
      meshes |-> <<[primitives |->
                      <<[attributes |-> [POSITION |-> 0, NORMAL |-> 2],
                         indices |-> 1]>>]>>],
     [asset |-> 2,
      materials |-> <<[normalTexture |-> 2, emissiveTexture |-> 2]>>,
      meshes |-> <<EmptyObject>>],
     [asset |-> 2, samplers |-> 2,
      meshes |-> <<[primitives |-> <<>>], [primitives |-> <<EmptyObject>>]>>],
     [asset |-> 2, images |-> 2,
      materials |-> <<[pbrMetallicRoughness |-> EmptyObject]>>,
      meshes |-> <<[primitives |->
                      <<[attributes |-> [POSITION |-> 0, COLOR_0 |-> 2,
                                         TEXCOORD_0 |-> 2]]>>]>>]}

\* The file operations after gltfToGlb (lines 270-274), in order.
FileSteps ==
    {"writeFileSync", "statSync(inputFile)", "statSync(bin)",
     "statSync(outputFile)"}

\* The input file is missing or no JSON (<<>>) or holds a document; an
\* output file of an earlier run may exist ("stale").
InitOptimize ==
    /\ ViewerIdle
    /\ file \in {<<>>} \cup {<<d>> : d \in SampleDocuments}
    /\ gltf = <<>>
    /\ once = <<>>
    /\ passes = 0
    /\ pc = "idle"
    /\ output \in {"none", "stale"}
    /\ failed = "none"
    /\ logged = FALSE

\* catch (err) { console.error(...) }: the run ends, nothing is rethrown.
Caught(step) ==
    /\ failed' = step
    /\ logged' = TRUE
    /\ pc' = "done"

\* optimize() up to its first await: readJsonSync, the stripping step and
\* the call of processGltf.
OptimizeStart ==
    /\ pc = "idle"
    /\ IF file = <<>>
       THEN /\ Caught("readJsonSync")
            /\ UNCHANGED <<gltf, once, passes>>
       ELSE /\ gltf' = <<Strip(file[1])>>
            /\ once' = gltf'
            /\ passes' = 1
            /\ pc' = "processGltf"
            /\ UNCHANGED <<failed, logged>>
    /\ UNCHANGED <<file, output>>
    /\ UNCHANGED viewerVars

\* The promise of processGltf settles; fulfilled, gltfToGlb is called.
ProcessGltfSettles(fulfilled) ==
    /\ pc = "processGltf"
    /\ IF fulfilled
       THEN pc' = "gltfToGlb" /\ UNCHANGED <<failed, logged>>
       ELSE Caught("processGltf")
    /\ UNCHANGED <<file, gltf, once, passes, output>>
    /\ UNCHANGED viewerVars

\* fs.writeFileSync(outputFile, glb) that throws may have created or
\* truncated the file already.
OutputAfterFailedWrite == {output, "partial"}

\* A continuation that writes the output file whether or not gltfToGlb
\* fulfilled.
GltfToGlbSettlesWriteAlways(fulfilled, fault) ==
    /\ pc = "gltfToGlb"
    /\ IF ~fulfilled
       THEN Caught("gltfToGlb") /\ output' = "written"
       ELSE IF fault = "writeFileSync"
       THEN Caught(fault) /\ output' \in OutputAfterFailedWrite
       ELSE IF fault \in FileSteps
       THEN Caught(fault) /\ output' = "written"
       ELSE /\ output' = "written"
            /\ pc' = "done"
            /\ UNCHANGED <<failed, logged>>
    /\ UNCHANGED <<file, gltf, once, passes>>
    /\ UNCHANGED viewerVars

\* The promise of gltfToGlb settles; fulfilled, the output file is written
\* and the three sizes are read.  fault is the file step that throws.
GltfToGlbSettles(fulfilled, fault) ==
    /\ pc = "gltfToGlb"
    /\ IF ~fulfilled
       THEN Caught("gltfToGlb") /\ UNCHANGED output
       ELSE IF fault = "writeFileSync"
       THEN Caught(fault) /\ output' \in OutputAfterFailedWrite
       ELSE IF fault \in FileSteps
       THEN Caught(fault) /\ output' = "written"
       ELSE /\ output' = "written"
            /\ pc' = "done"
            /\ UNCHANGED <<failed, logged>>
    /\ UNCHANGED <<file, gltf, once, passes>>
    /\ UNCHANGED viewerVars

NextOptimize ==
    \/ OptimizeStart
    \/ \E fulfilled \in BOOLEAN : ProcessGltfSettles(fulfilled)
    \/ \E fulfilled \in BOOLEAN, fault \in FileSteps \cup {"none"} :
          GltfToGlbSettles(fulfilled, fault)

SpecOptimize == InitOptimize /\ [][NextOptimize]_vars

----------------------------------------------------------------------------
(* Properties of the stripping step, checked under SpecStrip *)

Materials(doc) == IF Has(doc, "materials") THEN doc.materials ELSE <<>>

Meshes(doc) == IF Has(doc, "meshes") THEN doc.meshes ELSE <<>>

Primitives(mesh) == IF Has(mesh, "primitives") THEN mesh.primitives ELSE <<>>

Attributes(primitive) ==
    IF Has(primitive, "attributes") THEN DOMAIN primitive.attributes ELSE {}

\* No top-level image, texture or sampler array and no texture reference
\* in a material or in its pbrMetallicRoughness.
NoTextureData(doc) ==
    /\ DOMAIN doc \cap TextureArrays = {}
    /\ \A i \in 1..Len(Materials(doc)) :
          LET mat == Materials(doc)[i]
          IN  /\ DOMAIN mat \cap MaterialTextures = {}
              /\ Has(mat, "pbrMetallicRoughness") =>
                    DOMAIN mat.pbrMetallicRoughness \cap PbrTextures = {}

\* No primitive holds one of the five stripped attributes.
NoStrippedAttributes(doc) ==
    \A i \in 1..Len(Meshes(doc)) :
       \A j \in 1..Len(Primitives(Meshes(doc)[i])) :
          Attributes(Primitives(Meshes(doc)[i])[j]) \cap StrippedAttributes = {}

\* Primitive q holds the POSITION entry and the indices primitive p holds.
SamePositionAndIndices(p, q) ==
    /\ Has(p, "indices") = Has(q, "indices")
    /\ Has(p, "indices") => p.indices = q.indices
    /\ Has(p, "attributes") = Has(q, "attributes")
    /\ ("POSITION" \in Attributes(p)) = ("POSITION" \in Attributes(q))
    /\ "POSITION" \in Attributes(p) =>
          p.attributes.POSITION = q.attributes.POSITION

\* Document e has the meshes and primitives of d, each with the POSITION
\* entry and the indices it has in d.
GeometryKept(d, e) ==
    /\ Has(d, "meshes") = Has(e, "meshes")
    /\ Len(Meshes(d)) = Len(Meshes(e))
    /\ \A i \in 1..Len(Meshes(d)) :
          /\ Has(Meshes(d)[i], "primitives") = Has(Meshes(e)[i], "primitives")
          /\ Len(Primitives(Meshes(d)[i])) = Len(Primitives(Meshes(e)[i]))
          /\ \A j \in 1..Len(Primitives(Meshes(d)[i])) :
                SamePositionAndIndices(Primitives(Meshes(d)[i])[j],
                                       Primitives(Meshes(e)[i])[j])

\* C1: strip is idempotent: the document after a second stripping pass is
\* the document after the first.
C1_StripIdempotent == passes = 2 => gltf = once

\* C1 witness: two passes over a document whose material held a base-color
\* texture in its pbrMetallicRoughness.
C1_Witness ==
    /\ passes = 2
    /\ \E i \in 1..Len(Materials(file[1])) :
          /\ Has(Materials(file[1])[i], "pbrMetallicRoughness")
          /\ Has(Materials(file[1])[i].pbrMetallicRoughness,
                 "baseColorTexture")

\* C2: after stripping, no material references image, texture or sampler
\* data and no primitive retains NORMAL, TEXCOORD_0, TEXCOORD_1, TANGENT or
\* COLOR_0.
C2_NothingStrippedRemains ==
    passes >= 1 => NoTextureData(gltf[1]) /\ NoStrippedAttributes(gltf[1])

\* C2 witness: a stripped document that came with a material texture and a
\* primitive with vertex colours.
C2_Witness ==
    /\ passes = 1
    /\ \E i \in 1..Len(Materials(file[1])) :
          DOMAIN Materials(file[1])[i] \cap MaterialTextures # {}
    /\ \E i \in 1..Len(Meshes(file[1])) :
          \E j \in 1..Len(Primitives(Meshes(file[1])[i])) :
             "COLOR_0" \in Attributes(Primitives(Meshes(file[1])[i])[j])

\* C3: strip never removes POSITION attributes or index buffers: every
\* primitive has the same POSITION entry and indices after as before.
C3_PositionAndIndicesKept == passes >= 1 => GeometryKept(file[1], gltf[1])

\* C3 witness: a stripped primitive that came with POSITION, NORMAL and
\* indices.
C3_Witness ==
    /\ passes = 1
    /\ \E i \in 1..Len(Meshes(file[1])) :
          \E j \in 1..Len(Primitives(Meshes(file[1])[i])) :
             LET p == Primitives(Meshes(file[1])[i])[j]
             IN  {"POSITION", "NORMAL"} \subseteq Attributes(p)
                 /\ Has(p, "indices")

\* The document has no material.
NoMaterials(doc) == Materials(doc) = <<>>

\* C9 as stated: strip on a document with no materials and no textures
\* returns it unchanged, whatever else it holds.
C9_AsStated ==
    (passes = 1 /\ NoMaterials(file[1]) /\ ~Has(file[1], "textures"))
        => gltf = file

\* C9 amended: strip on a document with no materials, no image, texture or
\* sampler array and no stripped attribute on a primitive returns it
\* unchanged.
C9_NothingToStrip ==
    (/\ passes >= 1
     /\ NoMaterials(file[1])
     /\ DOMAIN file[1] \cap TextureArrays = {}
     /\ NoStrippedAttributes(file[1]))
        => gltf = file

\* C9 witness: such a document with an empty materials array and a
\* primitive with POSITION, stripped.
C9_Witness ==
    /\ passes = 1
    /\ Has(file[1], "materials") /\ NoMaterials(file[1])
    /\ DOMAIN file[1] \cap TextureArrays = {}
    /\ NoStrippedAttributes(file[1])
    /\ \E i \in 1..Len(Meshes(file[1])) :
          \E j \in 1..Len(Primitives(Meshes(file[1])[i])) :
             "POSITION" \in Attributes(Primitives(Meshes(file[1])[i])[j])

----------------------------------------------------------------------------
(* Properties of fitCameraToSelection, checked under SpecFit *)

\* Math.tan(x) for a fixed-point 0 <= x < 1, as sin(x) / cos(x).
MathTan(x) ==
    LET x2 == Mul(x, x)
        x3 == Mul(x2, x)
        x5 == Mul(x3, x2)
        x7 == Mul(x5, x2)
        sin == x - x3 \div 6 + x5 \div 120 - x7 \div 5040
        cos == Scale - x2 \div 2 + Mul(x2, x2) \div 24 - Mul(x3, x3) \div 720
    IN  Quot(sin, cos)

\* marginFactor * max(v, v / aspect), v = maxDimension / (2 tan(pi fov / 360))
StatedDistance(maxDimension, fov, aspect, marginFactor) ==
    LET v == Quot(maxDimension, 2 * MathTan(Div(MathPI * fov, 360)))
    IN  Mul(marginFactor, Max2(v, Quot(v, aspect)))

\* a is b to within two percent.
About(a, b) ==
    (IF a >= b THEN a - b ELSE b - a) * 100 <= 2 * b

Fitted == fit.calls = 1

\* C4 as stated: for every selection with a non-empty union box, a point
\* included, distance > 0 and near < far, near = distance / 100 and
\* far = distance * 100.
C4_AsStated ==
    (Fitted /\ ~IsEmpty(fit.box)) =>
        /\ fit.distance > 0
        /\ camera.near < camera.far
        /\ camera.near = Div(fit.distance, 100)
        /\ camera.far = fit.distance * 100

\* C4 amended: for every selection whose union box has a positive largest
\* extent, distance > 0 and near < far, near = distance / 100 and
\* far = distance * 100; with a largest extent of 0 all three are 0.
C4_PositiveExtent ==
    /\ (Fitted /\ fit.maxSize > 0) =>
          /\ fit.distance > 0
          /\ camera.near < camera.far
          /\ camera.near = Div(fit.distance, 100)
          /\ camera.far = fit.distance * 100
    /\ (Fitted /\ fit.maxSize = 0) =>
          fit.distance = 0 /\ camera.near = 0 /\ camera.far = 0

\* C4 witness: a fit to two objects whose union has a positive extent.
C4_Witness == Fitted /\ fit.n = 2 /\ fit.maxSize > 0 /\ camera.near > 0

\* C5 as stated: fit on an empty selection fails with EmptyInputError and
\* applies no camera parameter.
C5_AsStated ==
    (Fitted /\ fit.n = 0) =>
        /\ fit.error = "EmptyInputError"
        /\ camera = fit.before.camera
        /\ controls = fit.before.controls

\* C5 amended: fit on an empty selection does not fail: it takes size and
\* centre (0,0,0), computes distance 0 and applies near = far = 0,
\* maxDistance = 0, and the origin as target and as camera position.
C5_EmptySelectionFitsToOrigin ==
    (Fitted /\ fit.n = 0) =>
        /\ fit.error = "none"
        /\ fit.distance = 0
        /\ camera.near = 0 /\ camera.far = 0
        /\ controls.maxDistance = 0
        /\ controls.target = Origin
        /\ camera.position = Origin

\* C5 witness: a fit on the empty selection that moved the camera and the
\* target.
C5_Witness ==
    /\ Fitted /\ fit.n = 0
    /\ fit.before.camera.position # camera.position
    /\ fit.before.controls.target # controls.target

Degenerate == fit.before.camera.position = fit.before.controls.target

\* C6 as stated: with the camera on the target, fit fails with
\* DegenerateDirectionError and does not place the camera.
C6_AsStated ==
    (Fitted /\ Degenerate) =>
        /\ fit.error = "DegenerateDirectionError"
        /\ camera.position = fit.before.camera.position

\* C6 amended: with the camera on the target, fit does not fail: the
\* normalized direction is (0,0,0) and the camera is placed on the new
\* target, the centre of the box.
C6_DegeneratePlacesCameraOnTarget ==
    (Fitted /\ Degenerate) =>
        /\ fit.error = "none"
        /\ controls.target = GetCenter(fit.box)
        /\ camera.position = controls.target

\* C6 witness: a fit from a camera on the target to a box of positive
\* extent whose centre is elsewhere.
C6_Witness ==
    /\ Fitted /\ Degenerate
    /\ fit.distance > 0
    /\ camera.position # fit.before.camera.position

\* C7: the distance is marginFactor * max(v, v / aspect) with
\* v = maxDimension / (2 tan(pi fov / 360)); for a box of size (2,2,2),
\* fov 45, aspect 1.0 and margin 1.2 it is about 2.9.
C7_DistanceAsStated ==
    (Fitted /\ fit.maxSize > 0) =>
        /\ About(fit.distance,
                 StatedDistance(fit.maxSize, fit.before.camera.fov,
                                fit.before.camera.aspect, DefaultFitOffset))
        /\ (/\ fit.maxSize = 2 * Scale
            /\ fit.before.camera.fov = CameraFov
            /\ fit.before.camera.aspect = Scale)
              => /\ fit.distance >= (285 * Scale) \div 100
                 /\ fit.distance <= (295 * Scale) \div 100

----------------------------------------------------------------------------
(* Properties of a run of optimize(), checked under SpecOptimize *)

\* The run wrote to the output file.
OutputTouched == output \in {"partial", "written"}

\* C8 as stated: a failure of any step, a later file operation included,
\* leaves no output written by the run.
C8_AsStated == (pc = "done" /\ failed # "none") => ~OutputTouched

\* C8 amended: a failure of readJsonSync, processGltf or gltfToGlb is
\* caught and logged and leaves the output file untouched; the output is
\* complete only if these and writeFileSync succeeded; a failed statSync
\* after the write is logged and leaves the written output in place.
C8_FailureBeforeWriteLeavesNoOutput ==
    /\ (pc = "done" /\ failed \in {"readJsonSync", "processGltf", "gltfToGlb"})
         => ~OutputTouched
    /\ output = "written"
         => failed \notin {"readJsonSync", "processGltf", "gltfToGlb",
                            "writeFileSync"}
    /\ (pc = "done" /\ failed \in FileSteps \ {"writeFileSync"})
         => output = "written"
    /\ (pc = "done") => (logged = (failed # "none"))

\* C8 witness: a run whose gltfToGlb rejected, after the stripping step
\* changed the document.
C8_Witness ==
    /\ pc = "done" /\ failed = "gltfToGlb"
    /\ gltf # file

----------------------------------------------------------------------------
(* Properties of the viewer, checked under Spec *)

\* fitCameraToSelection was invoked on [this.model].
FittedToModel ==
    /\ fit.calls >= 1
    /\ fit.n = 1
    /\ fit.box = model[1]
    /\ controls.target = GetCenter(model[1])

\* C10 as stated: once a handler has set the displayed object, model load
\* or placeholder, fitCameraToSelection has been invoked on it.
C10_AsStated == model # <<>> => FittedToModel

\* C10 amended: a successful load sets this.model and fits the camera to
\* it in the same callback; createPlaceholder sets this.model and invokes
\* no fit, the camera keeping the constructor's near, far and maxDistance.
C10_FitOnLoadOnly ==
    /\ load = "pending" => model = <<>> /\ fit.calls = 0
    /\ load = "loaded" =>
          /\ model # <<>>
          /\ fit.calls = 1
          /\ FittedToModel
          /\ camera.near = Div(fit.distance, 100)
          /\ camera.far = fit.distance * 100
          /\ controls.maxDistance = fit.distance * 10
    /\ load = "error" =>
          /\ model = <<PlaceholderBox>>
          /\ fit.calls = 0
          /\ camera.near = Scale \div 10
          /\ camera.far = 1000 * Scale
          /\ controls.maxDistance = Infinity

\* C10 witness: a model of positive extent was loaded and later events,
\* a frame and a view button, have been handled.
C10_Witness ==
    /\ load = "loaded"
    /\ fit.distance > 0
    /\ frames >= 2
    /\ camera.position = ViewPosition("front")

====
